---- MODULE Spec2Model ----
(***************************************************************************)
(* A model of the ray tracer: the Vector3 algebra, the sphere              *)
(* intersection, the nearest-hit search and the render loop of run().      *)
(*                                                                         *)
(* Numbers are integers.  Every f64 operation the model performs (+, -, *, *)
(* comparison, sqrt of a perfect square) is exact on small integers, so    *)
(* the integer result is the f64 result.  Inputs whose discriminant is not *)
(* a perfect square are left out of the bounded input sets.                *)
(***************************************************************************)
EXTENDS Integers, Sequences, FiniteSets, TLC

VARIABLES
    width, height,          \* run()'s parameters
    objects,                \* the scene: Vec<Box<dyn Object>>
    camera_pos, camera_dir, \* the camera
    fovx, fovy,             \* field of view, degrees
    mode,                   \* ProjectionMode
    pc,                     \* position in run(): "poll", "sweep", "present", "done"
                            \* (and "cast", "shaded", "vec" in the function specifications)
    dx, dy,                 \* loop indices of the pixel sweep
    queue,                  \* events delivered and not yet polled, oldest first
    handled,                \* per event kind, how many were taken from the pump
    pending,                \* number of events delivered when the loop iteration began
    sink,                   \* pixel writes of the current frame, in order
    pixel,                  \* the color of the last pixel write
    r,                      \* the ray being cast
    idx,                    \* index of the next object of `for obj in &objects`
    t,                      \* the nearest hit so far: Option<(f64, &Box<dyn Object>)>
    roots,                  \* last result of Sphere::ray_intersection
    t0,                     \* last result of Object::ray_intersection
    va, vb,                 \* two vectors
    vsum, vback, vdots      \* a.add(b), a.add(b).sub(b), (a.dot(b), b.dot(a))

runVars  == <<width, height, camera_dir, fovx, fovy, mode, dx, dy, queue,
              handled, pending, sink>>
castVars == <<r, idx, t, roots, t0>>
vecVars  == <<va, vb, vsum, vback, vdots>>
vars     == <<runVars, castVars, vecVars, objects, camera_pos, pc, pixel>>

----------------------------------------------------------------------------
(* Bounds of the model *)

MaxWidth   == 2   \* frame widths 1..MaxWidth
MaxHeight  == 2   \* frame heights 1..MaxHeight
MaxEvents  == 2   \* events the input source delivers in one run
MaxCoord   == 2   \* sphere centers (x, 0, 0) with |x| <= MaxCoord
MaxRadius  == 2   \* sphere radii 1..MaxRadius
MaxObjects == 2   \* objects in a scene of the cast specification
MaxComp    == 1   \* vector components -MaxComp..MaxComp of the vector specification

(* Program constants *)

NUM_OBJECTS == 10
InitialFov  == 90

----------------------------------------------------------------------------
(* Option<T> *)

None    == <<>>
Some(v) == <<v>>

----------------------------------------------------------------------------
(* vector3d *)

Vector3(x, y, z) == [x |-> x, y |-> y, z |-> z]

add(self, other) ==
    [x |-> self.x + other.x, y |-> self.y + other.y, z |-> self.z + other.z]

sub(self, other) ==
    [x |-> self.x - other.x, y |-> self.y - other.y, z |-> self.z - other.z]

mul(self, other) ==
    [x |-> self.x * other, y |-> self.y * other, z |-> self.z * other]

(* dot with the last term taken from self alone *)
dot_self_z(self, other) ==
    self.x * other.x + self.y * other.y + self.z * self.z

dot(self, other) ==
    self.x * other.x + self.y * other.y + self.z * other.z

(* f64::sqrt, on the perfect squares *)
sqrt(x) == CHOOSE k \in 0..x : k * k = x

(* f64::powi(2) *)
powi2(x) == x * x

----------------------------------------------------------------------------
(* ray, material, sphere *)

Ray(pos, dir) == [pos |-> pos, dir |-> dir]

Material(color) == [color |-> color]

Sphere(pos, radius, material) ==
    [pos |-> pos, radius |-> radius, material |-> material]

(* The discriminant of Sphere::ray_intersection *)
discrimant(self, ray) ==
    LET o_sub_c            == sub(ray.pos, self.pos)
        len_sq_o_sub_c     == dot(o_sub_c, o_sub_c)
        dir_dot_o_sub_c    == dot(ray.dir, o_sub_c)
        dir_dot_o_sub_c_sq == powi2(dir_dot_o_sub_c)
        radius_sq          == powi2(self.radius)
    IN  dir_dot_o_sub_c_sq - len_sq_o_sub_c + radius_sq

(* Sphere::ray_intersection with the two roots in the other order *)
Sphere_ray_intersection_swapped(self, ray) ==
    LET o_sub_c         == sub(ray.pos, self.pos)
        dir_dot_o_sub_c == dot(ray.dir, o_sub_c)
        x               == discrimant(self, ray)
    IN  IF x < 0 THEN None
        ELSE IF x = 0 THEN Some(<<-dir_dot_o_sub_c, -dir_dot_o_sub_c>>)
        ELSE Some(<<-dir_dot_o_sub_c - sqrt(x), -dir_dot_o_sub_c + sqrt(x)>>)

(* Sphere::ray_intersection: Option<(f64, f64)> *)
Sphere_ray_intersection(self, ray) ==
    LET o_sub_c         == sub(ray.pos, self.pos)
        dir_dot_o_sub_c == dot(ray.dir, o_sub_c)
        x               == discrimant(self, ray)
    IN  IF x < 0 THEN None
        ELSE IF x = 0 THEN Some(<<-dir_dot_o_sub_c, -dir_dot_o_sub_c>>)
        ELSE Some(<<-dir_dot_o_sub_c + sqrt(x), -dir_dot_o_sub_c - sqrt(x)>>)

(* <Sphere as Object>::ray_intersection: Option<f64>.  The root t1 unless  *)
(* t1 < 0, and then t0.                                                    *)
Object_ray_intersection(self, ray) ==
    LET res == Sphere_ray_intersection(self, ray)
    IN  IF res = None THEN None
        ELSE IF res[1][2] < 0 THEN Some(res[1][1]) ELSE Some(res[1][2])

----------------------------------------------------------------------------
(* run(): the body of the pixel loop *)

(* One iteration of `for obj in &objects`: the nearest hit after object k  *)
(* reported hit, when the nearest so far was acc.                          *)
NearestStep(acc, hit, k) ==
    IF hit = None THEN acc
    ELSE IF acc = None THEN Some(<<hit[1], k>>)
    ELSE IF hit[1] < acc[1][1] THEN Some(<<hit[1], k>>)
    ELSE acc

(* The whole loop over objs[k..] *)
RECURSIVE NearestFrom(_, _, _, _)
NearestFrom(acc, k, ray, objs) ==
    IF k > Len(objs) THEN acc
    ELSE NearestFrom(NearestStep(acc, Object_ray_intersection(objs[k], ray), k),
                     k + 1, ray, objs)

(* The color handed to the frame sink: blank_color on no hit, else the     *)
(* winning object's material color scaled by the shading proportion.  The  *)
(* proportion needs normalized vectors and is not computed: the color is   *)
(* recorded as the material it is derived from and the hit distance.       *)
blank_color == [shaded |-> FALSE]

Shade(nearest, objs) ==
    IF nearest # None
    THEN [shaded |-> TRUE, material |-> objs[nearest[1][2]].material,
          t |-> nearest[1][1], obj |-> nearest[1][2]]
    ELSE blank_color

CastRay(ray, objs) == Shade(NearestFrom(None, 1, ray, objs), objs)

----------------------------------------------------------------------------
(* Values shared by the specifications *)

ProjectionMode == {"Ortho", "Perspective"}

EventKinds == {"Quit", "Escape", "P", "Up", "Down", "Right", "Left", "Other"}

(* The unit vectors with integer components *)
UnitDirs ==
    {Vector3(1, 0, 0), Vector3(-1, 0, 0), Vector3(0, 1, 0), Vector3(0, -1, 0),
     Vector3(0, 0, 1), Vector3(0, 0, -1)}

(* The state of run() when the render loop is entered, for a given scene   *)
(* and camera position.                                                    *)
LoopEntry(w, h) ==
    /\ width = w /\ height = h
    /\ camera_dir = Vector3(0, 0, -1)
    /\ fovy = InitialFov /\ fovx = InitialFov
    /\ mode = "Perspective"
    /\ dx = 0 /\ dy = 0
    /\ queue = <<>>
    /\ handled = [k \in EventKinds |-> 0]
    /\ pending = 0
    /\ sink = <<>>
    /\ pixel = None

NoCast == r = None /\ idx = 0 /\ t = None /\ roots = None /\ t0 = None

NoVec == va = None /\ vb = None /\ vsum = None /\ vback = None /\ vdots = None

----------------------------------------------------------------------------
(* Spec: the render loop of run() *)

(* The scene run() builds: spheres 1..NUM_OBJECTS-1 of radius 1.  The color *)
(* of sphere i is a float function of i and is recorded as <<"sphere", i>>. *)
BuiltScene ==
    [i \in 1..(NUM_OBJECTS - 1) |->
        Sphere(Vector3(2 * i - 5, 0, -3 - i), 1, Material(<<"sphere", i>>))]

(* The direction of a pixel's ray is a float function of the pixel, the    *)
(* mode and the field of view, with z < 0 before normalization.  It is     *)
(* taken as any integer unit vector that does not point behind the camera. *)
CameraDirs == {d \in UnitDirs : d.z <= 0}

(* `dx as i16` *)
AsI16(n) ==
    LET m == n % 65536
    IN  IF m >= 32768 THEN m - 65536 ELSE m

(* The pixel write with its two coordinates exchanged *)
PixelCoord_transposed(i, j) == [x |-> AsI16(j), y |-> AsI16(i)]

(* The coordinate a pixel write of loop indices (i, j) goes to *)
PixelCoord(i, j) == [x |-> AsI16(i), y |-> AsI16(j)]

(* Events taken from the pump so far, and events delivered so far *)
Taken ==
    handled["Quit"] + handled["Escape"] + handled["P"] + handled["Up"]
    + handled["Down"] + handled["Right"] + handled["Left"] + handled["Other"]

Delivered == Taken + Len(queue)

(* The toggle without its branch back to Perspective *)
Toggle_one_way(m) == "Ortho"

(* Up and Down that keep fovy within InitialFov - 1 .. InitialFov + 1 *)
HandleFovy_clamped(e, f) ==
    IF e = "Up" THEN (IF f > InitialFov THEN f ELSE f + 1)
    ELSE IF e = "Down" THEN (IF f < InitialFov THEN f ELSE f - 1)
    ELSE f

(* Left that also lowers fovy *)
HandleFovy_on_left(e, f) ==
    IF e = "Up" THEN f + 1 ELSE IF e \in {"Down", "Left"} THEN f - 1 ELSE f

(* The match arms of the event loop, per variable they assign *)
Toggle(m) == IF m = "Ortho" THEN "Perspective" ELSE "Ortho"

HandleMode(e, m) == IF e = "P" THEN Toggle(m) ELSE m

HandleFovy(e, f) ==
    IF e = "Up" THEN f + 1 ELSE IF e = "Down" THEN f - 1 ELSE f

HandleFovx(e, f) ==
    IF e = "Right" THEN f + 1 ELSE IF e = "Left" THEN f - 1 ELSE f

Init ==
    /\ \E w \in 1..MaxWidth, h \in 1..MaxHeight : LoopEntry(w, h)
    /\ objects = BuiltScene
    /\ camera_pos = Vector3(0, 0, 0)
    /\ pc = "poll"
    /\ NoCast
    /\ NoVec

(* The input source delivers an event; it is numbered in delivery order *)
Deliver(e) ==
    /\ pc # "done"
    /\ Delivered < MaxEvents
    /\ queue' = Append(queue, [kind |-> e, seq |-> Delivered + 1])
    /\ UNCHANGED <<width, height, camera_dir, fovx, fovy, mode, dx, dy,
                   handled, pending, sink>>
    /\ UNCHANGED <<castVars, vecVars, objects, camera_pos, pc, pixel>>

(* The event loop with `break` in place of `break 'main`: Quit and Escape *)
(* end the polling only, and the sweep follows.                            *)
PollEvent_break_inner ==
    /\ pc = "poll"
    /\ queue # <<>>
    /\ LET e == Head(queue).kind
       IN  /\ handled' = [handled EXCEPT ![e] = @ + 1]
           /\ pc' = IF e \in {"Quit", "Escape"} THEN "sweep" ELSE "poll"
           /\ mode' = HandleMode(e, mode)
           /\ fovy' = HandleFovy(e, fovy)
           /\ fovx' = HandleFovx(e, fovx)
    /\ queue' = Tail(queue)
    /\ dx' = 0
    /\ dy' = 0
    /\ UNCHANGED <<width, height, camera_dir, pending, sink>>
    /\ UNCHANGED <<castVars, vecVars, objects, camera_pos, pixel>>

(* One iteration of `for event in event_pump.poll_iter()` *)
PollEvent ==
    /\ pc = "poll"
    /\ queue # <<>>
    /\ LET e == Head(queue).kind
       IN  /\ handled' = [handled EXCEPT ![e] = @ + 1]
           /\ pc' = IF e \in {"Quit", "Escape"} THEN "done" ELSE "poll"
           /\ mode' = HandleMode(e, mode)
           /\ fovy' = HandleFovy(e, fovy)
           /\ fovx' = HandleFovx(e, fovx)
    /\ queue' = Tail(queue)
    /\ UNCHANGED <<width, height, camera_dir, dx, dy, pending, sink>>
    /\ UNCHANGED <<castVars, vecVars, objects, camera_pos, pixel>>

(* The sweep begins although poll_iter() still has events *)
PollDone_early ==
    /\ pc = "poll"
    /\ pc' = IF width > 0 /\ height > 0 THEN "sweep" ELSE "present"
    /\ dx' = 0
    /\ dy' = 0
    /\ UNCHANGED <<width, height, camera_dir, fovx, fovy, mode, queue,
                   handled, pending, sink>>
    /\ UNCHANGED <<castVars, vecVars, objects, camera_pos, pixel>>

(* poll_iter() has no event left: the sweep begins *)
PollDone ==
    /\ pc = "poll"
    /\ queue = <<>>
    /\ pc' = IF width > 0 /\ height > 0 THEN "sweep" ELSE "present"
    /\ dx' = 0
    /\ dy' = 0
    /\ UNCHANGED <<width, height, camera_dir, fovx, fovy, mode, queue,
                   handled, pending, sink>>
    /\ UNCHANGED <<castVars, vecVars, objects, camera_pos, pixel>>

(* The body of `for dx in 0..width { for dy in 0..height { ... } }` for    *)
(* one pixel: the ray, the nearest hit, the pixel write.                   *)
Pixel ==
    /\ pc = "sweep"
    /\ \E dir \in CameraDirs :
          pixel' = CastRay(Ray(camera_pos, dir), objects)
    /\ sink' = Append(sink, [at |-> PixelCoord(dx, dy), mode |-> mode,
                             fovx |-> fovx, fovy |-> fovy])
    /\ IF dy + 1 < height
       THEN dy' = dy + 1 /\ dx' = dx /\ pc' = "sweep"
       ELSE IF dx + 1 < width
            THEN dy' = 0 /\ dx' = dx + 1 /\ pc' = "sweep"
            ELSE dy' = dy /\ dx' = dx /\ pc' = "present"
    /\ UNCHANGED <<width, height, camera_dir, fovx, fovy, mode, queue,
                   handled, pending>>
    /\ UNCHANGED <<castVars, vecVars, objects, camera_pos>>

(* canvas.clear(); canvas.copy_ex(&texture, ...); canvas.present(): the    *)
(* frame is handed over and the next loop iteration begins.                *)
Present ==
    /\ pc = "present"
    /\ pc' = "poll"
    /\ sink' = <<>>
    /\ pending' = Delivered
    /\ UNCHANGED <<width, height, camera_dir, fovx, fovy, mode, dx, dy,
                   queue, handled>>
    /\ UNCHANGED <<castVars, vecVars, objects, camera_pos, pixel>>

Next ==
    \/ \E e \in EventKinds : Deliver(e)
    \/ PollEvent
    \/ PollDone
    \/ Pixel
    \/ Present

Spec == Init /\ [][Next]_vars

----------------------------------------------------------------------------
(* SpecCast: one primary ray cast into a scene, for bounded scenes and     *)
(* rays; the loop over the objects is taken one object at a time.          *)

SphereSet ==
    {Sphere(Vector3(x, 0, 0), rad, Material("white")) :
        x \in -MaxCoord..MaxCoord, rad \in 1..MaxRadius}

Scenes == UNION {[1..n -> SphereSet] : n \in 0..MaxObjects}

RayOrigins == {Vector3(0, 0, 0), Vector3(0, 1, 0)}

(* The f64 result is the integer result: the discriminant is negative or a *)
(* perfect square.                                                         *)
Exact(self, ray) ==
    LET x == discrimant(self, ray)
    IN  x < 0 \/ \E k \in 0..x : k * k = x

InitCast ==
    /\ LoopEntry(1, 1)
    /\ NoVec
    /\ objects \in Scenes
    /\ camera_pos \in RayOrigins
    /\ \E dir \in UnitDirs : r = Ray(camera_pos, dir)
    /\ \A k \in 1..Len(objects) : Exact(objects[k], r)
    /\ pc = "cast"
    /\ idx = 1
    /\ t = None /\ roots = None /\ t0 = None

(* lib.rs `for obj in &objects { if let Some(t0) = obj.ray_intersection(&r) ... }` *)
CastObject ==
    /\ pc = "cast"
    /\ idx <= Len(objects)
    /\ roots' = Sphere_ray_intersection(objects[idx], r)
    /\ t0' = Object_ray_intersection(objects[idx], r)
    /\ t' = NearestStep(t, Object_ray_intersection(objects[idx], r), idx)
    /\ idx' = idx + 1
    /\ UNCHANGED <<runVars, vecVars, objects, camera_pos, pc, pixel, r>>

(* lib.rs `if let Some((t, obj)) = t { ... pixel(color) } else { pixel(blank_color) }` *)
CastShade ==
    /\ pc = "cast"
    /\ idx > Len(objects)
    /\ pixel' = Shade(t, objects)
    /\ pc' = "shaded"
    /\ UNCHANGED <<runVars, vecVars, castVars, objects, camera_pos>>

NextCast == CastObject \/ CastShade

SpecCast == InitCast /\ [][NextCast]_vars

----------------------------------------------------------------------------
(* Claims about the ray cast, checked under SpecCast *)

(* What object k of the scene reports for the ray being cast *)
HitOf(k) == Object_ray_intersection(objects[k], r)

RootsOf(k) == Sphere_ray_intersection(objects[k], r)

PositiveHits == {k \in 1..Len(objects) : HitOf(k) # None /\ HitOf(k)[1] > 0}

NoHitInFront ==
    \A k \in 1..Len(objects) :
        \/ RootsOf(k) = None
        \/ RootsOf(k)[1][1] < 0 /\ RootsOf(k)[1][2] < 0

C3_SphereRoots ==
    idx > 1 =>
        LET self == objects[idx - 1]
            L    == sub(r.pos, self.pos)
            b    == dot(r.dir, L)
            c    == dot(L, L) - self.radius * self.radius
            disc == b * b - c
            ex   == self.pos = Vector3(2, 0, 0) /\ self.radius = 1
        IN  /\ disc < 0 => roots = None
            /\ disc = 0 => roots = Some(<<-b, -b>>)
            /\ disc > 0 =>
                  /\ roots # None
                  /\ roots[1][1] > roots[1][2]
                  /\ roots[1][1] + roots[1][2] = -2 * b
                  /\ roots[1][1] * roots[1][2] = c
                  /\ (roots[1][1] + b) * (roots[1][1] + b) = disc
            /\ ex /\ r = Ray(Vector3(0, 0, 0), Vector3(1, 0, 0))
                  => roots = Some(<<3, 1>>)
            /\ ex /\ r = Ray(Vector3(0, 1, 0), Vector3(1, 0, 0))
                  => roots = Some(<<2, 2>>)
            /\ ex /\ r = Ray(Vector3(0, 0, 0), Vector3(0, 1, 0))
                  => roots = None

(* A sphere with two distinct roots has been intersected *)
C3_Witness ==
    /\ idx > 1
    /\ objects[idx - 1].pos = Vector3(2, 0, 0)
    /\ objects[idx - 1].radius = 1
    /\ r = Ray(Vector3(0, 0, 0), Vector3(1, 0, 0))
    /\ roots = Some(<<3, 1>>)

(* C4: Object::ray_intersection returns None when the ray does not         *)
(* intersect, and otherwise Some(t) with t the smallest non-negative root: *)
(* t1 unless t1 < 0, and then t0.                                          *)
C4_SmallestNonNegative ==
    idx > 1 =>
        /\ roots = None => t0 = None
        /\ roots # None =>
              LET both == {roots[1][1], roots[1][2]}
              IN  /\ t0 # None
                  /\ t0[1] = (IF roots[1][2] < 0 THEN roots[1][1] ELSE roots[1][2])
                  /\ t0[1] \in both
                  /\ t0[1] >= 0
                  /\ \A w \in both : w >= 0 => t0[1] <= w

----------------------------------------------------------------------------
(* SpecVec: the vector algebra applied to bounded vectors *)

Vectors ==
    {Vector3(x, y, z) :
        x \in -MaxComp..MaxComp, y \in -MaxComp..MaxComp, z \in -MaxComp..MaxComp}

InitVec ==
    /\ LoopEntry(1, 1)
    /\ NoCast
    /\ objects = <<>>
    /\ camera_pos = Vector3(0, 0, 0)
    /\ pc = "vec"
    /\ va \in Vectors
    /\ vb \in Vectors
    /\ vsum = None /\ vback = None /\ vdots = None

(* a.add(&b) *)
VecAdd ==
    /\ pc = "vec"
    /\ vsum = None
    /\ vsum' = Some(add(va, vb))
    /\ UNCHANGED <<runVars, castVars, objects, camera_pos, pc, pixel,
                   va, vb, vback, vdots>>

(* a.add(&b).sub(&b) *)
VecSub ==
    /\ pc = "vec"
    /\ vsum # None
    /\ vback = None
    /\ vback' = Some(sub(vsum[1], vb))
    /\ UNCHANGED <<runVars, castVars, objects, camera_pos, pc, pixel,
                   va, vb, vsum, vdots>>

(* a.dot(&b) and b.dot(&a) *)
VecDot ==
    /\ pc = "vec"
    /\ vdots = None
    /\ vdots' = Some(<<dot(va, vb), dot(vb, va)>>)
    /\ UNCHANGED <<runVars, castVars, objects, camera_pos, pc, pixel,
                   va, vb, vsum, vback>>

NextVec == VecAdd \/ VecSub \/ VecDot

SpecVec == InitVec /\ [][NextVec]_vars

----------------------------------------------------------------------------
(* Claims about the render loop, checked under Spec *)

(* C5: the mode is Ortho or Perspective; it is Perspective exactly when an *)
(* even number of P events has been handled (Perspective at start, every P *)
(* flips it, nothing else changes it).                                     *)
C5_ModeTwoStates ==
    /\ mode \in ProjectionMode
    /\ mode = "Perspective" <=> handled["P"] % 2 = 0

(* Two P events have been handled *)
C5_Witness == handled["P"] = 2 /\ mode = "Perspective"

(* C6: fovy = 90 + #Up - #Down and fovx = 90 + #Right - #Left over the     *)
(* events handled, without clamping; so N Downs and N Ups leave fovy as it *)
(* was.                                                                    *)
C6_FovCounts ==
    /\ fovy = InitialFov + handled["Up"] - handled["Down"]
    /\ fovx = InitialFov + handled["Right"] - handled["Left"]

(* One Down and one Up have been handled and fovy is back at its start *)
C6_Witness ==
    handled["Down"] = 1 /\ handled["Up"] = 1 /\ fovy = InitialFov

(* C7: the pixel writes of a frame go to coordinates (x, y) with           *)
(* 0 <= x < width and 0 <= y < height, no coordinate twice, and when the   *)
(* frame is presented there are width * height of them; outside a frame    *)
(* there is no write.                                                      *)
C7_EachPixelOnce ==
    /\ \A i \in 1..Len(sink) :
          /\ 0 <= sink[i].at.x /\ sink[i].at.x < width
          /\ 0 <= sink[i].at.y /\ sink[i].at.y < height
    /\ \A i, j \in 1..Len(sink) : i # j => sink[i].at # sink[j].at
    /\ pc = "present" => Len(sink) = width * height
    /\ pc = "poll" => sink = <<>>

(* A frame of more than one row and column is about to be presented *)
C7_Witness ==
    pc = "present" /\ width = 2 /\ height = 2 /\ Len(sink) = 4

(* C8: handling an event changes only fovx, fovy and the mode (and the     *)
(* loop's exit): Up/Down change fovy by +1/-1 alone, Right/Left change     *)
(* fovx by +1/-1 alone, P leaves both, any other event leaves all three;   *)
(* no event changes the scene, the camera or the frame dimensions, nor     *)
(* writes a pixel.                                                         *)
HandledStep(e) == handled'[e] = handled[e] + 1

C8_EventFrame ==
    [][\A e \in EventKinds : HandledStep(e) =>
          /\ e = "Up" => fovy' = fovy + 1 /\ fovx' = fovx /\ mode' = mode
          /\ e = "Down" => fovy' = fovy - 1 /\ fovx' = fovx /\ mode' = mode
          /\ e = "Right" => fovx' = fovx + 1 /\ fovy' = fovy /\ mode' = mode
          /\ e = "Left" => fovx' = fovx - 1 /\ fovy' = fovy /\ mode' = mode
          /\ e = "P" => fovx' = fovx /\ fovy' = fovy /\ mode' # mode
          /\ e \in {"Quit", "Escape", "Other"} =>
                fovx' = fovx /\ fovy' = fovy /\ mode' = mode
          /\ UNCHANGED <<objects, camera_pos, camera_dir, width, height>>
          /\ UNCHANGED <<sink, pixel, dx, dy>>
      ]_vars

(* A Left event and a P event have been handled *)
C8_Witness ==
    handled["Left"] = 1 /\ handled["P"] = 1 /\ fovx = InitialFov - 1

----------------------------------------------------------------------------
(* Claims about the vector algebra, checked under SpecVec *)

(* C9: a.dot(b) = b.dot(a), and a.add(b).sub(b) = a *)
C9_DotSymmetricAddSubInverse ==
    /\ vdots # None => vdots[1][1] = vdots[1][2]
    /\ vback # None => vback[1] = va

(* Both have been computed for two vectors that differ in every component *)
C9_Witness ==
    /\ vdots # None /\ vback # None
    /\ va.x # vb.x /\ va.y # vb.y /\ va.z # vb.z
    /\ vdots[1][1] # 0

----------------------------------------------------------------------------
(* C10: events are taken from the pump only between sweeps.  While a frame *)
(* has pixel writes, every event delivered before the loop iteration began *)
(* has been taken, and every write of the frame was made with the mode,    *)
(* fovx and fovy that still hold; no step of a sweep takes an event; and   *)
(* events are taken in delivery order.                                     *)
C10_EventsBetweenSweeps ==
    /\ [](sink # <<>> =>
            /\ Taken >= pending
            /\ \A i \in 1..Len(sink) :
                  /\ sink[i].mode = mode
                  /\ sink[i].fovx = fovx
                  /\ sink[i].fovy = fovy)
    /\ [][(pc = "sweep" \/ pc = "present") => UNCHANGED handled]_vars
    /\ [][Taken' # Taken =>
            /\ Taken' = Taken + 1
            /\ queue # <<>>
            /\ Head(queue).seq = Taken + 1
            /\ queue' = Tail(queue)]_vars

(* A frame is complete, events were pending when its iteration began, and  *)
(* more arrived during the sweep.                                          *)
C10_Witness ==
    /\ pc = "present"
    /\ Len(sink) = width * height
    /\ pending > 0
    /\ queue # <<>>
    /\ mode = "Ortho"

----------------------------------------------------------------------------
(* C11: the step that takes a Quit or Escape event ends the render loop;   *)
(* once the loop has ended no event is taken (fovx, fovy and the mode keep *)
(* their values, the events still queued stay queued), no pixel is written *)
(* and no frame is presented; and the loop ends by no other step than the  *)
(* taking of a Quit or Escape event.                                       *)
Quits == handled["Quit"] + handled["Escape"]

C11_QuitEndsLoop ==
    /\ [](Quits > 0 <=> pc = "done")
    /\ [](Quits <= 1)
    /\ [][(HandledStep("Quit") \/ HandledStep("Escape")) =>
            /\ pc' = "done"
            /\ UNCHANGED <<fovx, fovy, mode, sink, pixel>>]_vars
    /\ [][(pc = "done") =>
            UNCHANGED <<pc, fovx, fovy, mode, handled, queue, sink, pixel,
                        dx, dy>>]_vars
    /\ [][(pc # "done" /\ pc' = "done") =>
            /\ pc = "poll"
            /\ queue # <<>>
            /\ Head(queue).kind \in {"Quit", "Escape"}
            /\ Taken' = Taken + 1]_vars

(* An Escape has been taken while a later event was still queued, after a  *)
(* frame had been rendered.                                                *)
C11_Witness ==
    /\ pc = "done"
    /\ handled["Escape"] = 1
    /\ queue # <<>>
    /\ pixel # None

====
